---- MODULE Spec2Model ----
(***************************************************************************)
(* A model of rust-makecab: the MS-ZIP block codec (mszip/src/lib.rs) and  *)
(* the single-file cabinet writer (src/lib.rs).                            *)
(*                                                                         *)
(* Sizes keep their source values (MAX_CHUNK = 32768, 16- and 32-bit       *)
(* fields).  Byte strings are kept run-length encoded, so that a 32 KiB    *)
(* chunk, or a multi-gigabyte file, is a short sequence of runs.           *)
(***************************************************************************)
EXTENDS Integers, Sequences, FiniteSets, TLC

(***************************************************************************)
(* Program constants.                                                      *)
(***************************************************************************)
\* mszip/src/lib.rs:51  const MSZIP_SIGNATURE: [u8; 2] = [b'C', b'K'];
MSZIP_SIGNATURE == <<67, 75>>
\* mszip/src/lib.rs:52
SIG_LEN == 2
\* mszip/src/lib.rs:54
MAX_CHUNK == 32768
\* mszip/src/lib.rs:56
MAX_BLOCK_SIZE == MAX_CHUNK + 12

(***************************************************************************)
(* Byte strings, run-length encoded.  A run is n bytes of one kind:        *)
(*   k = "c": n copies of the byte value v (o is 0);                       *)
(*   k = "x": the n bytes at offsets o .. o+n-1 of one fixed incompressible*)
(*            stream (no two of its substrings of length >= 3 are equal),  *)
(*            v is 0.                                                      *)
(* A string is a sequence of runs with n >= 1 in which adjacent runs do    *)
(* not continue each other (normal form), so equal strings are equal       *)
(* values.                                                                 *)
(***************************************************************************)
CRun(v, n) == [k |-> "c", v |-> v, o |-> 0, n |-> n]
XRun(o, n) == [k |-> "x", v |-> 0, o |-> o, n |-> n]

Min(a, b) == IF a <= b THEN a ELSE b
Max(a, b) == IF a >= b THEN a ELSE b

\* r2 continues r1: the two runs written one after the other are one run.
Continues(r1, r2) ==
    /\ r1.k = r2.k
    /\ r1.v = r2.v
    /\ (r1.k = "x" => r2.o = r1.o + r1.n)

RunTake(r, n) == [r EXCEPT !.n = n]
RunDrop(r, n) == [r EXCEPT !.n = @ - n, !.o = IF r.k = "x" THEN @ + n ELSE @]

RECURSIVE RLen(_)
RLen(s) == IF s = <<>> THEN 0 ELSE Head(s).n + RLen(Tail(s))

\* s followed by the run r.
RApp(s, r) ==
    IF r.n = 0 THEN s
    ELSE IF s # <<>> /\ Continues(s[Len(s)], r)
         THEN [s EXCEPT ![Len(s)].n = @ + r.n]
         ELSE Append(s, r)

RECURSIVE RCat(_, _)
RCat(a, b) == IF b = <<>> THEN a ELSE RCat(RApp(a, Head(b)), Tail(b))

\* The first n bytes of s (all of s when it is shorter).
RECURSIVE RTake(_, _)
RTake(s, n) ==
    IF n <= 0 \/ s = <<>> THEN <<>>
    ELSE IF Head(s).n <= n THEN <<Head(s)>> \o RTake(Tail(s), n - Head(s).n)
    ELSE <<RunTake(Head(s), n)>>

\* s without its first n bytes.
RECURSIVE RDrop(_, _)
RDrop(s, n) ==
    IF n <= 0 \/ s = <<>> THEN s
    ELSE IF Head(s).n <= n THEN RDrop(Tail(s), n - Head(s).n)
    ELSE <<RunDrop(Head(s), n)>> \o Tail(s)

\* The last n bytes of s (all of s when it is shorter).
RLast(s, n) == RDrop(s, RLen(s) - n)

\* The bytes at offsets from .. from+n-1 of s.
RSlice(s, from, n) == RTake(RDrop(s, from), n)

(***************************************************************************)
(* The DEFLATE primitive (flate2::Compress / flate2::Decompress over zlib, *)
(* raw streams, 32 KiB window).  It is not code of this repository; it is  *)
(* modelled by what RFC 1951 and zlib's deflate()/inflate() do at the      *)
(* granularity of runs:                                                    *)
(*   - a deflate block is final or not, stored or Huffman-coded, and holds *)
(*     tokens: literal runs and matches <distance, length>;                *)
(*   - the matcher is greedy (nearest, longest): a run that continues the  *)
(*     previous byte is one match at distance 1, a run whose value occurs  *)
(*     earlier in the window is a match into that occurrence;              *)
(*   - sizes are those of the fixed Huffman code, or of a stored block     *)
(*     when that is not larger.                                            *)
(***************************************************************************)
\* zlib window: 2^15 bytes (flate2 passes MZ_DEFAULT_WINDOW_BITS = 15).
WSIZE == 32768
\* RFC 1951: shortest and longest match.
MIN_MATCH == 3
MAX_MATCH == 258
\* RFC 1951 3.2.4: a stored block costs its header byte and LEN, NLEN.
STORED_HDR == 5
\* RFC 1951 3.2.6 (fixed Huffman code): block header, literal, end of block,
\* and a length/distance pair with its extra bits, in bits.
HDR_BITS == 3
LIT_BITS == 9
EOB_BITS == 7
MATCH_BITS == 32

\* flate2::Compression::{None, Default} as zlib levels.
LevelNone == 0
LevelDefault == 6

Lit(r) == [t |-> "lit", r |-> r, dist |-> 0, n |-> r.n]
Match(dist, n) == [t |-> "match", r |-> CRun(0, 0), dist |-> dist, n |-> n]

\* The index of the last run of ctx that is n >= 1 copies of byte v (0: none).
RECURSIVE LastRunOf(_, _)
LastRunOf(ctx, v) ==
    IF ctx = <<>> THEN 0
    ELSE IF ctx[Len(ctx)].k = "c" /\ ctx[Len(ctx)].v = v THEN Len(ctx)
    ELSE LastRunOf(SubSeq(ctx, 1, Len(ctx) - 1), v)

\* The tokens zlib's matcher emits for the run r after the bytes ctx.
RunTokens(ctx, r) ==
    IF r.k = "x" THEN <<Lit(r)>>
    ELSE LET i == LastRunOf(ctx, r.v)
             m == IF i = 0 THEN 0 ELSE RLen(SubSeq(ctx, i + 1, Len(ctx)))
             j == IF i = 0 THEN 0 ELSE Min(Min(r.n, ctx[i].n), WSIZE - m)
         IN  IF i # 0 /\ m = 0
             THEN <<Match(1, r.n)>>
             ELSE IF i # 0 /\ j >= MIN_MATCH
             THEN <<Match(m + j, j)>>
                  \o (IF r.n > j THEN <<Match(1, r.n - j)>> ELSE <<>>)
             ELSE <<Lit(CRun(r.v, 1))>>
                  \o (IF r.n > 1 THEN <<Match(1, r.n - 1)>> ELSE <<>>)

\* LZ77 over the bytes data, with the window ctx before them.
RECURSIVE LZ77(_, _)
LZ77(ctx, data) ==
    IF data = <<>> THEN <<>>
    ELSE RunTokens(ctx, Head(data))
         \o LZ77(RLast(RApp(ctx, Head(data)), WSIZE), Tail(data))

\* The bytes as literals only: what a stored block holds.
RECURSIVE Literals(_)
Literals(data) ==
    IF data = <<>> THEN <<>> ELSE <<Lit(Head(data))>> \o Literals(Tail(data))

TokBits(tok) ==
    IF tok.t = "lit" THEN LIT_BITS * tok.n
    ELSE MATCH_BITS * ((tok.n + MAX_MATCH - 1) \div MAX_MATCH)

RECURSIVE ToksBits(_)
ToksBits(toks) ==
    IF toks = <<>> THEN 0 ELSE TokBits(Head(toks)) + ToksBits(Tail(toks))

HuffBytes(toks) == (HDR_BITS + ToksBits(toks) + EOB_BITS + 7) \div 8
StoredBytes(n) == STORED_HDR + n

\* One deflate block of n bytes.  Level 0 stores; the other levels store
\* when the Huffman coding toks of the bytes is not smaller than lits, the
\* bytes themselves.
Block(level, n, toks, lits, final) ==
    IF level = LevelNone \/ StoredBytes(n) <= HuffBytes(toks)
    THEN [final |-> final, stored |-> TRUE, bad |-> FALSE, n |-> n,
          toks |-> lits, size |-> StoredBytes(n)]
    ELSE [final |-> final, stored |-> FALSE, bad |-> FALSE, n |-> n,
          toks |-> toks, size |-> HuffBytes(toks)]

\* The deflate block for the bytes data after the window hist.
EncodeBlock(level, hist, data, final) ==
    Block(level, RLen(data), LZ77(hist, data), Literals(data), final)

\* flate2::Compress::new(level, false): an empty window, nothing pending.
NewCompress(level) ==
    [level |-> level, hist |-> <<>>, pending |-> <<>>,
     total_in |-> 0, total_out |-> 0, done |-> FALSE]

\* Compress::compress(input, dst, flush) with dst of cap bytes.  With
\* Flush::None zlib takes the input and decides itself when to emit: the
\* compressing levels buffer a whole chunk's symbols, level 0
\* (deflate_stored) emits a non-final stored block as soon as a window's
\* worth of input is pending.  With Flush::Finish what is pending is emitted
\* in a final block; the status is StreamEnd when it fitted dst.
Emitted(c, n_in, cap, flush, pend, blk) ==
    [consumed |-> n_in,
     produced |-> Min(blk.size, cap),
     out |-> <<blk>>,
     trunc |-> blk.size > cap,
     status |-> IF blk.size <= cap /\ flush = "Finish" THEN "StreamEnd"
                ELSE IF c.done THEN "StreamEnd"
                ELSE "Ok",
     c |-> [c EXCEPT !.hist = RLast(RCat(c.hist, pend), WSIZE),
                     !.pending = <<>>,
                     !.total_in = @ + n_in,
                     !.total_out = @ + Min(blk.size, cap),
                     !.done = @ \/ (blk.size <= cap /\ flush = "Finish")]]

Withheld(c, n_in, pend) ==
    [consumed |-> n_in,
     produced |-> 0,
     out |-> <<>>,
     trunc |-> FALSE,
     status |-> IF c.done THEN "StreamEnd"
                ELSE IF n_in = 0 THEN "BufError"
                ELSE "Ok",
     c |-> [c EXCEPT !.pending = pend, !.total_in = @ + n_in]]

Compress(c, input, cap, flush) ==
    IF IF flush = "Finish" THEN ~c.done
       ELSE c.level = LevelNone /\ RLen(c.pending) + RLen(input) >= WSIZE
    THEN Emitted(c, RLen(input), cap, flush, RCat(c.pending, input),
                 EncodeBlock(c.level, c.hist, RCat(c.pending, input),
                             flush = "Finish"))
    ELSE Withheld(c, RLen(input), RCat(c.pending, input))

\* deflateResetKeep: the counters, the stream-end flag and whatever was
\* waiting to be emitted are cleared; the window keeps every byte taken.
DeflateResetKeep(c) ==
    [c EXCEPT !.hist = RLast(RCat(c.hist, c.pending), WSIZE),
              !.pending = <<>>, !.total_in = 0, !.total_out = 0,
              !.done = FALSE]

\* The sliding window the compressor holds: the last WSIZE bytes it took.
Window(c) == RLast(RCat(c.hist, c.pending), WSIZE)

\* What a match <dist, n> copies after the bytes ctx (dist <= RLen(ctx)):
\* byte by byte, so a match longer than its distance repeats itself.
RECURSIVE CopyMatch(_, _, _)
CopyMatch(ctx, dist, n) ==
    IF n <= dist THEN RSlice(ctx, RLen(ctx) - dist, n)
    ELSE LET src == RLast(ctx, dist)
         IN  IF Len(src) = 1 /\ src[1].k = "c" THEN <<CRun(src[1].v, n)>>
             ELSE RCat(src, CopyMatch(RCat(ctx, src), dist, n - dist))

\* The tokens of one block decoded after dict \o out; ok is FALSE on a
\* distance that reaches before the window ("invalid distance too far back").
RECURSIVE InflateToks(_, _, _)
InflateToks(dict, out, toks) ==
    IF toks = <<>> THEN [ok |-> TRUE, out |-> out]
    ELSE LET tok == Head(toks)
             ctx == RLast(RCat(dict, out), WSIZE)
         IN  IF tok.t = "lit"
             THEN InflateToks(dict, RApp(out, tok.r), Tail(toks))
             ELSE IF tok.dist > RLen(ctx)
             THEN [ok |-> FALSE, out |-> out]
             ELSE InflateToks(dict, RCat(out, CopyMatch(ctx, tok.dist, tok.n)),
                              Tail(toks))

\* inflate(Z_FINISH) over the blocks of a stream into a buffer of cap bytes,
\* with the preset dictionary dict.  trunc: the stream's last block is cut
\* short.  zlib answers Z_STREAM_END after a final block, Z_DATA_ERROR on
\* invalid data, and Z_BUF_ERROR when the input ends, or the buffer is
\* full, before the stream does.
RECURSIVE InflateBlocks(_, _, _, _, _)
\* r: what the tokens of the block b gave.
AfterBlock(dict, out, blocks, trunc, cap, b, r) ==
    IF b.bad \/ ~r.ok THEN [status |-> "DataError", out |-> out]
    ELSE IF RLen(r.out) > cap
    THEN [status |-> "BufError", out |-> RTake(r.out, cap)]
    ELSE IF trunc /\ Len(blocks) = 1
    THEN [status |-> "BufError", out |-> r.out]
    ELSE IF b.final THEN [status |-> "StreamEnd", out |-> r.out]
    ELSE InflateBlocks(dict, r.out, Tail(blocks), trunc, cap)

InflateBlocks(dict, out, blocks, trunc, cap) ==
    IF blocks = <<>> THEN [status |-> "BufError", out |-> out]
    ELSE AfterBlock(dict, out, blocks, trunc, cap, Head(blocks),
                    InflateToks(dict, out, Head(blocks).toks))

\* flate2::Decompress::new(false): no dictionary; mid: a stream was left
\* unfinished by an earlier call.
NewDecompress == [dict |-> <<>>, total_out |-> 0, mid |-> FALSE]

\* Decompress::decompress(input, output, Flush::Finish).  A decompressor
\* left in the middle of a stream takes the input as that stream's
\* continuation, which the start of another stream is not.
Inflated(d, r) ==
    [status |-> r.status, out |-> r.out,
     d |-> [d EXCEPT !.total_out = @ + RLen(r.out),
                     !.mid = r.status # "StreamEnd"]]

Decompress(d, stream, cap) ==
    IF d.mid THEN [status |-> "DataError", out |-> <<>>, d |-> d]
    ELSE Inflated(d, InflateBlocks(d.dict, <<>>, stream.blocks, stream.trunc,
                                   cap))

\* inflateReset followed by inflateSetDictionary(bytes).
InflateResetSetDictionary(d, bytes) ==
    [dict |-> RLast(bytes, WSIZE), total_out |-> 0, mid |-> FALSE]

(***************************************************************************)
(* Block payloads: the bytes of one MS-ZIP block, as                       *)
(*   len    their number,                                                  *)
(*   sig    the first two of them (fewer when len < 2),                    *)
(*   stream the deflate blocks the rest holds, and whether the last is cut.*)
(***************************************************************************)
NoStream == [blocks |-> <<>>, trunc |-> FALSE]
Payload(sig, stream, len) == [len |-> len, sig |-> sig, stream |-> stream]
EmptyPayload == Payload(<<>>, NoStream, 0)

(***************************************************************************)
(* run_compress (mszip/src/lib.rs:58-92).  rem: what obj.fill_buf() still  *)
(* returns of the chunk.  dst is the same cap bytes at every call.         *)
(***************************************************************************)
RECURSIVE run_compress(_, _, _, _, _)
\* The match on ret (lines 78-90), r being what data.compress answered.
AfterCompress(rem, cap, total_consumed, total_read, r) ==
    IF r.status \in {"Ok", "BufError"} /\ r.produced = 0 /\ rem # <<>> /\ cap > 0
    THEN run_compress(RDrop(rem, r.consumed), r.c, cap,
                      total_consumed + r.consumed, total_read + r.produced)
    ELSE [consumed |-> total_consumed + r.consumed,
          read |-> total_read + r.produced,
          c |-> r.c,
          stream |-> [blocks |-> r.out, trunc |-> r.trunc]]

run_compress(rem, c, cap, total_consumed, total_read) ==
    AfterCompress(rem, cap, total_consumed, total_read,
                  Compress(c, rem, cap, IF rem = <<>> THEN "Finish" ELSE "None"))

(***************************************************************************)
(* MSZipEncoder (mszip/src/lib.rs:106-149).                                *)
(*   src        what the underlying reader has not handed out yet          *)
(*   buf        the BufReader's unconsumed bytes                           *)
(*   compress   the compressor                                             *)
(*   out_buffer the bytes last written to out_buffer                       *)
(***************************************************************************)
NewEncoder(src, level) ==
    [src |-> src, buf |-> <<>>, compress |-> NewCompress(level),
     out_buffer |-> EmptyPayload]

\* The sizes one read of the underlying reader can return for a buffer of
\* MAX_CHUNK bytes: all that is there for a reader over memory or a regular
\* file, possibly less for a pipe.
ShortRead == 4
ReadSizes(src, kind) ==
    LET full == RLen(RTake(src, MAX_CHUNK))
    IN  IF kind = "pipe" THEN {full, Min(1, full), Min(ShortRead, full)}
        ELSE {full}

\* Lines 135-147, rc being what run_compress returned for the chunk: the
\* chunk is consumed, the compressor reset, and the block returned.
CompressedBlock(src, chunk, rc) ==
    [e |-> [src |-> src, buf |-> RDrop(chunk, rc.consumed),
            compress |-> DeflateResetKeep(rc.c),
            out_buffer |-> Payload(MSZIP_SIGNATURE, rc.stream, rc.read + SIG_LEN)],
     block |-> [original_size |-> rc.consumed,
                data |-> Payload(MSZIP_SIGNATURE, rc.stream, rc.read + SIG_LEN)]]

\* A read_block that, at the end of the input, also resets the compressor.
ReadChunk_reset(e, src, chunk) ==
    IF chunk = <<>>
    THEN [e |-> [e EXCEPT !.src = src, !.buf = chunk,
                          !.compress = NewCompress(e.compress.level)],
          block |-> [original_size |-> 0, data |-> EmptyPayload]]
    ELSE CompressedBlock(src, chunk,
                         run_compress(chunk, e.compress,
                                      MAX_BLOCK_SIZE - SIG_LEN, 0, 0))

\* Lines 126-134 and 136, chunk being what self.reader.fill_buf() returned
\* and src what is left in the reader.
ReadChunk(e, src, chunk) ==
    IF chunk = <<>>
    THEN [e |-> [e EXCEPT !.src = src, !.buf = chunk],
          block |-> [original_size |-> 0, data |-> EmptyPayload]]
    ELSE CompressedBlock(src, chunk,
                         run_compress(chunk, e.compress,
                                      MAX_BLOCK_SIZE - SIG_LEN, 0, 0))

\* read_block, the underlying read (if one is made) returning k bytes.
read_block(e, k) ==
    IF e.buf = <<>> THEN ReadChunk(e, RDrop(e.src, k), RTake(e.src, k))
    ELSE ReadChunk(e, e.src, e.buf)

(***************************************************************************)
(* MSZipDecoder (mszip/src/lib.rs:156-210).                                *)
(***************************************************************************)
NewDecoder == [writer |-> <<>>, decompress |-> NewDecompress]

\* Lines 185-203, r being what self.decompress.decompress answered.
AfterDecompress(d, r) ==
    IF r.status = "StreamEnd"
    THEN [d |-> [writer |-> RCat(d.writer, r.out),
                 decompress |-> InflateResetSetDictionary(r.d, r.out)],
          res |-> "Ok"]
    ELSE [d |-> [d EXCEPT !.decompress = r.d],
          res |-> IF r.status = "Ok" THEN "DecompressionError"
                  ELSE IF r.status = "BufError" THEN "BufferError"
                  ELSE "Flate"]

\* A write_block that forgets the dictionary when it rejects a signature.
write_block_forgets(d, block) ==
    IF block.len > MAX_BLOCK_SIZE
    THEN [d |-> d, res |-> "BlockSizeTooLarge"]
    ELSE IF block.len < Len(MSZIP_SIGNATURE)
    THEN [d |-> d, res |-> "panic"]
    ELSE IF block.sig # MSZIP_SIGNATURE
    THEN [d |-> [d EXCEPT !.decompress = NewDecompress],
          res |-> "InvalidBlockSignature"]
    ELSE AfterDecompress(d, Decompress(d.decompress, block.stream, MAX_CHUNK))

\* write_block.  res is the error kind, "Ok", or "panic" where the slice
\* &block[..2] is out of range.
write_block(d, block) ==
    IF block.len > MAX_BLOCK_SIZE
    THEN [d |-> d, res |-> "BlockSizeTooLarge"]
    ELSE IF block.len < Len(MSZIP_SIGNATURE)
    THEN [d |-> d, res |-> "panic"]
    ELSE IF block.sig # MSZIP_SIGNATURE
    THEN [d |-> d, res |-> "InvalidBlockSignature"]
    ELSE AfterDecompress(d, Decompress(d.decompress, block.stream, MAX_CHUNK))

(***************************************************************************)
(* State.                                                                  *)
(*   input  the bytes to compress and the kind of reader over them         *)
(*   level  the compression level the encoder was made with                *)
(*   enc    the MSZipEncoder                                               *)
(*   blk    the block the last read_block returned                         *)
(*   nblk   how many non-empty blocks read_block has returned              *)
(*   dec    the MSZipDecoder                                               *)
(*   res    what the last write_block returned                             *)
(*   hpc    where tests::roundtrip_compress stands                         *)
(*   eofs   how many times read_block has returned the sentinel to a       *)
(*          caller that keeps calling it                                   *)
(* and, for make_cab:                                                      *)
(*   pc         where make_cab stands                                      *)
(*   build      "debug" (arithmetic overflow panics) or "release" (wraps)  *)
(*   faulty     whether the output device can fail                         *)
(*   meta       the input file's length as its metadata gives it           *)
(*   mtime      the input file's modification time, in local time          *)
(*   file       the date and time fields of the CFFILE made from it        *)
(*   hdr, fld   the CFHEADER and CFFOLDER structs in memory                *)
(*   f          the BufWriter over the output file                         *)
(*   disk       the output file                                            *)
(*   num_blocks write_all_cfdata's counter                                 *)
(*   rec        the CFDATA header last written                             *)
(*   result     what make_cab returned                                     *)
(*   ioFailed   whether an operation on the files has failed               *)
(***************************************************************************)
VARIABLES input, level, enc, blk, nblk, dec, res, hpc, eofs,
          pc, build, faulty, meta, hdr, fld, f, disk, num_blocks, rec,
          result, ioFailed, mtime, file

codecVars == <<input, level, enc, blk, nblk, dec, res, hpc, eofs>>
dateVars == <<mtime, file>>
cabVars == <<pc, build, faulty, meta, hdr, fld, f, disk, num_blocks, rec,
             result, ioFailed, dateVars>>
vars == <<codecVars, cabVars>>

\* The range of u16.
U16 == 65536

\* File lengths and offsets are u64 values and the cabinet's size fields
\* u32 values: they are kept as two digits in base 2^16, hi unbounded for
\* a u64 and below 2^16 for a u32.
Wide(n) == [hi |-> n \div U16, lo |-> n % U16]
WAdd(w, n) == LET t == w.lo + n IN [hi |-> w.hi + t \div U16, lo |-> t % U16]
WMax(a, b) == IF a.hi > b.hi \/ (a.hi = b.hi /\ a.lo >= b.lo) THEN a ELSE b
\* `as u32`: the low 32 bits.
AsU32(w) == [hi |-> w.hi % U16, lo |-> w.lo]
\* The length of a string, as a u64.
RECURSIVE WLen(_)
WLen(s) == IF s = <<>> THEN Wide(0) ELSE WAdd(WLen(Tail(s)), Head(s).n)
\* No offset: the record is not in the file.
Nowhere == [hi |-> -1, lo |-> 0]


\* The output file: its length, where each record lies (-1: nowhere yet),
\* the fields as they stand in the file, and the CFDATA records in it
\* (how many, the sum of their cbUncomp, the sum of their payloads'
\* lengths).  next: what the layout has after the file's last byte, and
\* want: for a payload, the cbData of the CFDATA before it.  garbled: bytes
\* were written where the layout does not have them.
NewDisk ==
    [len |-> Wide(0), hdrAt |-> Nowhere, fldAt |-> Nowhere, fileAt |-> Nowhere,
     dataAt |-> Nowhere, cbCabinet |-> Wide(0), coffFiles |-> Wide(0),
     coffCabStart |-> Wide(0), cCFData |-> 0, cbFile |-> Wide(0),
     nameLen |-> 0, ndata |-> 0, sumUncomp |-> Wide(0),
     sumPayload |-> Wide(0), next |-> "hdr", want |-> 0, garbled |-> FALSE]

\* The BufWriter over the output file, as BufWriter::new leaves it.
NewBufWriter == [buf |-> <<>>, pos |-> Wide(0)]

\* No modification time taken yet.
NoTime == [year |-> 0, month |-> 0, day |-> 0, hour |-> 0, minute |-> 0,
           second |-> 0]

\* The state before make_cab is called.
CabIdle ==
    /\ meta = Wide(0)
    /\ hdr = [cbCabinet |-> Wide(0), coffFiles |-> Wide(0)]
    /\ fld = [coffCabStart |-> Wide(0), cCFData |-> 0]
    /\ f = NewBufWriter
    /\ disk = NewDisk
    /\ num_blocks = 0
    /\ rec = [cbData |-> 0, cbUncomp |-> 0]
    /\ result = "running"
    /\ ioFailed = FALSE
    /\ mtime = NoTime
    /\ file = [date |-> 0, time |-> 0]

NoBlock == [original_size |-> 0, data |-> EmptyPayload]

(***************************************************************************)
(* tests::roundtrip_compress (mszip/src/lib.rs:402-418): the encoder over  *)
(* the data, every non-empty block handed to the decoder, then finish and  *)
(* the comparison.                                                         *)
(***************************************************************************)
\* The largest input, in chunks (tests: nonzero_many_blocks).
MaxChunks == 8

ChunkLens == {1, MAX_CHUNK - 1, MAX_CHUNK, MAX_CHUNK + 1, 2 * MAX_CHUNK,
              MaxChunks * MAX_CHUNK}
EdgeLens == {1, MAX_CHUNK - 1, MAX_CHUNK}

\* Inputs read in full chunks.
CodecInputs ==
    {<<>>}
    \cup {<<CRun(0, n)>> : n \in ChunkLens}
    \cup {<<XRun(0, n)>> : n \in ChunkLens}
    \cup {<<CRun(0, a), CRun(1, b)>> : a \in EdgeLens, b \in EdgeLens}
    \cup {<<XRun(0, a), CRun(0, b)>> : a \in EdgeLens, b \in EdgeLens}
    \cup {<<CRun(0, MAX_CHUNK - 1), CRun(1, 1), CRun(0, MAX_CHUNK)>>}

\* Inputs that arrive through a pipe, in reads of any size.
PipeInputs ==
    {<<>>, <<CRun(0, 1)>>, <<CRun(0, ShortRead + 1)>>,
     <<CRun(0, ShortRead), CRun(1, 1), CRun(0, ShortRead)>>,
     <<XRun(0, ShortRead), CRun(1, 1)>>}

CodecInit ==
    /\ input \in [data : CodecInputs, kind : {"file"}]
                 \cup [data : PipeInputs, kind : {"pipe"}]
    /\ level \in {LevelNone, LevelDefault}
    /\ enc = NewEncoder(input.data, level)
    /\ blk = NoBlock
    /\ nblk = 0
    /\ eofs = 0
    /\ dec = NewDecoder
    /\ res = "none"
    /\ hpc = "read"
    /\ pc = "idle"
    /\ build = "release"
    /\ faulty = FALSE
    /\ CabIdle

\* compress.read_block()
EncReadBlock ==
    /\ hpc = "read"
    /\ \E k \in ReadSizes(enc.src, input.kind) :
         \E r \in {read_block(enc, k)} :
             /\ enc' = r.e
             /\ blk' = r.block
             /\ nblk' = IF r.block.data.len > 0 THEN nblk + 1 ELSE nblk
             /\ hpc' = IF r.block.data.len > 0 THEN "write" ELSE "finish"
    /\ UNCHANGED <<input, level, dec, res, eofs, cabVars>>

\* decompress.write_block(block.data).unwrap()
DecWriteBlock ==
    /\ hpc = "write"
    /\ \E r \in {write_block(dec, blk.data)} :
           /\ dec' = r.d
           /\ res' = r.res
           /\ hpc' = IF r.res = "Ok" THEN "read" ELSE "panicked"
    /\ UNCHANGED <<input, level, enc, blk, nblk, eofs, cabVars>>

\* decompress.finish() and assert_eq!(data, &result[..])
Finish ==
    /\ hpc = "finish"
    /\ hpc' = IF dec.writer = input.data THEN "passed" ELSE "failed"
    /\ UNCHANGED <<input, level, enc, blk, nblk, dec, res, eofs, cabVars>>

CodecNext == EncReadBlock \/ DecWriteBlock \/ Finish

SpecCodec == CodecInit /\ [][CodecNext]_vars

(***************************************************************************)
(* The cabinet records (src/lib.rs:52-131) and the output file.            *)
(***************************************************************************)
\* mem::size_of of the packed structs.
CFHEADER_SIZE == 36
CFFOLDER_SIZE == 8
CFFILE_SIZE == 16
CFDATA_SIZE == 8
\* std::io::BufWriter::new: a buffer of 8 KiB.
BUF_CAP == 8192

\* What one write hands over: a record (its two fields that vary), the
\* file name, its NUL, or a block's payload.
Seg(kind, len, a, b) == [kind |-> kind, len |-> len, a |-> a, b |-> b]

\* What the layout has after a segment of the kind k.
NextKind(k) ==
    CASE k = "hdr" -> "folder"
      [] k = "folder" -> "cffile"
      [] k = "cffile" -> "name"
      [] k = "name" -> "nul"
      [] k = "nul" -> "cfdata"
      [] k = "cfdata" -> "payload"
      [] OTHER -> "cfdata"

\* seg is what the layout has next: its kind and, for a payload, the
\* length its CFDATA announced and its place among the blocks.
InPlace(dk, seg) ==
    /\ seg.kind = dk.next
    /\ seg.kind = "payload" => (seg.len = dk.want /\ seg.a = dk.ndata)

\* The file after seg is appended.
Appended(dk, pos, seg) ==
    LET d == [dk EXCEPT !.len = WAdd(pos, seg.len),
                        !.next = NextKind(seg.kind),
                        !.garbled = @ \/ ~InPlace(dk, seg)]
    IN  IF seg.kind = "hdr"
        THEN [d EXCEPT !.hdrAt = pos, !.cbCabinet = seg.a, !.coffFiles = seg.b]
        ELSE IF seg.kind = "folder"
        THEN [d EXCEPT !.fldAt = pos, !.coffCabStart = seg.a, !.cCFData = seg.b]
        ELSE IF seg.kind = "cffile"
        THEN [d EXCEPT !.fileAt = pos, !.cbFile = seg.a]
        ELSE IF seg.kind = "name"
        THEN [d EXCEPT !.nameLen = seg.len]
        ELSE IF seg.kind = "cfdata"
        THEN [d EXCEPT !.dataAt = IF dk.ndata = 0 THEN pos ELSE @,
                       !.ndata = @ + 1, !.sumUncomp = WAdd(@, seg.b),
                       !.want = seg.a]
        ELSE IF seg.kind = "payload"
        THEN [d EXCEPT !.sumPayload = WAdd(@, seg.len)]
        ELSE d

\* The file after seg is written at offset pos: appended, or written over
\* the record of its kind, or over something else.
WriteSeg(dk, pos, seg) ==
    IF pos = dk.len THEN Appended(dk, pos, seg)
    ELSE IF seg.kind = "hdr" /\ pos = dk.hdrAt
    THEN [dk EXCEPT !.cbCabinet = seg.a, !.coffFiles = seg.b]
    ELSE IF seg.kind = "folder" /\ pos = dk.fldAt
    THEN [dk EXCEPT !.coffCabStart = seg.a, !.cCFData = seg.b]
    ELSE [dk EXCEPT !.len = WMax(dk.len, WAdd(pos, seg.len)),
                    !.garbled = TRUE]

RECURSIVE WriteSegs(_, _, _)
WriteSegs(dk, pos, segs) ==
    IF segs = <<>> THEN dk
    ELSE WriteSegs(WriteSeg(dk, pos, Head(segs)), WAdd(pos, Head(segs).len),
                   Tail(segs))

RECURSIVE SegsLen(_)
SegsLen(segs) == IF segs = <<>> THEN 0 ELSE Head(segs).len + SegsLen(Tail(segs))

(***************************************************************************)
(* std::io::BufWriter<File>: buf, the writes not yet handed to the file,   *)
(* and pos, the file's offset.  ok: whether the file takes the write.      *)
(* Each operator gives the writer and the file afterwards and err,         *)
(* whether it failed.                                                      *)
(***************************************************************************)
FlushBuf(w, dk, ok) ==
    IF w.buf = <<>> THEN [f |-> w, disk |-> dk, err |-> FALSE]
    ELSE IF ok
    THEN [f |-> [buf |-> <<>>, pos |-> WAdd(w.pos, SegsLen(w.buf))],
          disk |-> WriteSegs(dk, w.pos, w.buf), err |-> FALSE]
    ELSE [f |-> w, disk |-> dk, err |-> TRUE]

\* BufWriter::write_all: a write that does not fit the buffer flushes it
\* first, and one of BUF_CAP bytes or more goes to the file directly.
BufWriteAll(w, dk, seg, ok) ==
    LET fl == IF SegsLen(w.buf) + seg.len > BUF_CAP
              THEN FlushBuf(w, dk, ok)
              ELSE [f |-> w, disk |-> dk, err |-> FALSE]
    IN  IF fl.err THEN fl
        ELSE IF seg.len >= BUF_CAP
        THEN IF ok
             THEN [f |-> [fl.f EXCEPT !.pos = WAdd(@, seg.len)],
                   disk |-> WriteSeg(fl.disk, fl.f.pos, seg), err |-> FALSE]
             ELSE [f |-> fl.f, disk |-> fl.disk, err |-> TRUE]
        ELSE [f |-> [fl.f EXCEPT !.buf = Append(@, seg)], disk |-> fl.disk,
              err |-> FALSE]

\* write (src/lib.rs:134-142): the bytes of a record, through write_all.
write(w, dk, seg, ok) == BufWriteAll(w, dk, seg, ok)

\* tell (src/lib.rs:144-146): seek(SeekFrom::Current(0)), which flushes.
tell(w, dk, ok) == FlushBuf(w, dk, ok)

\* A seek that flushes and does not move.
SeekNowhere(w, dk, pos, ok) == FlushBuf(w, dk, ok)

\* BufWriter::seek(SeekFrom::Start(pos)): flush, then move.
SeekStart(w, dk, pos, ok) ==
    LET fl == FlushBuf(w, dk, ok)
    IN  IF fl.err THEN fl ELSE [fl EXCEPT !.f.pos = pos]

\* try! after try!: an operation is not made when one before it failed.
Then(r, seg, ok) == IF r.err THEN r ELSE write(r.f, r.disk, seg, ok)
ThenTell(r, ok) == IF r.err THEN r ELSE tell(r.f, r.disk, ok)
ThenSeekStart(r, pos, ok) == IF r.err THEN r ELSE SeekStart(r.f, r.disk, pos, ok)

(***************************************************************************)
(* make_cab (src/lib.rs:172-241), in the steps between which the files     *)
(* can be seen, and write_all_cfdata (src/lib.rs:149-169), one turn of its *)
(* loop at a time.  Every return drops the BufWriter, whose Drop flushes   *)
(* and discards the outcome.                                               *)
(***************************************************************************)
Outcomes == IF faulty THEN BOOLEAN ELSE {TRUE}

\* make_cab returns value, from the writer w and the file dk; failed: an
\* operation has failed on the way; okDrop: whether Drop's flush succeeds.
Return(value, w, dk, failed, okDrop) ==
    \E fl \in {FlushBuf(w, dk, okDrop)} :
        /\ result' = value
        /\ pc' = "done"
        /\ f' = fl.f
        /\ disk' = fl.disk
        /\ ioFailed' = (ioFailed \/ failed \/ fl.err)

\* Lines 173-182: open the input, take its file name and metadata, create
\* the output.
MakeCabOpen ==
    /\ pc = "start"
    /\ \E ok \in Outcomes :
         IF ~input.opens
         THEN Return("Io", f, disk, TRUE, TRUE) /\ UNCHANGED meta
         ELSE IF ~input.named
         THEN Return("BadFilename", f, disk, FALSE, TRUE) /\ UNCHANGED meta
         ELSE IF ~ok
         THEN Return("Io", f, disk, TRUE, TRUE) /\ UNCHANGED meta
         ELSE /\ meta' = IF input.kind = "pipe" THEN Wide(0)
                         ELSE WLen(input.data)
              /\ pc' = "headers"
              /\ f' = NewBufWriter
              /\ disk' = NewDisk
              /\ UNCHANGED <<result, ioFailed>>
    /\ UNCHANGED <<codecVars, build, faulty, hdr, fld, num_blocks, rec,
                   dateVars>>

\* Lines 185-214: the preliminary CFHEADER and CFFOLDER, and coffFiles.
MakeCabHeaders ==
    /\ pc = "headers"
    /\ \E ok \in Outcomes, okDrop \in Outcomes :
       \E t \in {ThenTell(
                   Then(write(f, disk,
                              Seg("hdr", CFHEADER_SIZE, Wide(0), Wide(0)), ok),
                        Seg("folder", CFFOLDER_SIZE, Wide(0), 0), ok),
                   ok)} :
             IF t.err
             THEN Return("Io", t.f, t.disk, TRUE, okDrop) /\ UNCHANGED hdr
             ELSE /\ hdr' = [hdr EXCEPT !.coffFiles = AsU32(t.f.pos)]
                  /\ f' = t.f
                  /\ disk' = t.disk
                  /\ pc' = "file"
                  /\ UNCHANGED <<result, ioFailed>>
    /\ UNCHANGED <<codecVars, build, faulty, meta, fld, num_blocks, rec,
                   dateVars>>

\* Lines 216-232: the CFFILE, the file name and its NUL, coffCabStart, and
\* the encoder over the input.
MakeCabFile ==
    /\ pc = "file"
    /\ \E ok \in Outcomes, okDrop \in Outcomes :
       \E t \in {ThenTell(
                   Then(Then(write(f, disk,
                                   Seg("cffile", CFFILE_SIZE, AsU32(meta), 0),
                                   ok),
                             Seg("name", input.name, 0, 0), ok),
                        Seg("nul", 1, 0, 0), ok),
                   ok)} :
             IF t.err
             THEN Return("Io", t.f, t.disk, TRUE, okDrop)
                  /\ UNCHANGED <<fld, enc, num_blocks>>
             ELSE /\ fld' = [fld EXCEPT !.coffCabStart = AsU32(t.f.pos)]
                  /\ enc' = NewEncoder(input.data, LevelDefault)
                  /\ num_blocks' = 0
                  /\ f' = t.f
                  /\ disk' = t.disk
                  /\ pc' = "data"
                  /\ UNCHANGED <<result, ioFailed>>
    /\ UNCHANGED <<input, level, blk, nblk, dec, res, hpc, eofs, build, faulty,
                   meta, hdr, rec, dateVars>>

\* A CFDATA header with the two sizes in each other's place.
CFDATA_swapped(block) ==
    [cbData |-> block.original_size % U16, cbUncomp |-> block.data.len % U16]

\* The CFDATA header of a block (src/lib.rs:154-160): both sizes `as u16`.
CFDATA(block) ==
    [cbData |-> block.data.len % U16, cbUncomp |-> block.original_size % U16]

\* One turn of write_all_cfdata's loop: a block is read and, when it is not
\* empty, written as a CFDATA header and its payload, and counted.  The
\* counter is a u16: past its range the addition panics in a debug build
\* and wraps in a release build.
write_all_cfdata ==
    /\ pc = "data"
    /\ \E k \in ReadSizes(enc.src, input.kind),
          okRead \in Outcomes, ok \in Outcomes, okDrop \in Outcomes :
       \E r \in {read_block(enc, k)} :
       \E this_block \in {CFDATA(r.block)} :
       \E w \in {Then(write(f, disk, Seg("cfdata", CFDATA_SIZE,
                                        this_block.cbData, this_block.cbUncomp),
                            ok),
                      Seg("payload", r.block.data.len, nblk + 1, 0), ok)} :
         IF ~okRead
         THEN Return("MSZip", f, disk, TRUE, okDrop)
              /\ UNCHANGED <<enc, blk, nblk, rec, num_blocks>>
         ELSE /\ enc' = r.e
              /\ blk' = r.block
              /\ IF r.block.data.len > 0
                 THEN /\ nblk' = nblk + 1
                      /\ IF w.err
                         THEN Return("Io", w.f, w.disk, TRUE, okDrop)
                              /\ UNCHANGED <<rec, num_blocks>>
                         ELSE /\ rec' = this_block
                              /\ IF num_blocks + 1 >= U16 /\ build = "debug"
                                 THEN Return("panic", w.f, w.disk, FALSE, okDrop)
                                      /\ UNCHANGED num_blocks
                                 ELSE /\ num_blocks' = (num_blocks + 1) % U16
                                      /\ f' = w.f
                                      /\ disk' = w.disk
                                      /\ UNCHANGED <<pc, result, ioFailed>>
                 ELSE /\ pc' = "final"
                      /\ UNCHANGED <<nblk, rec, num_blocks, f, disk, result,
                                     ioFailed>>
    /\ UNCHANGED <<input, level, dec, res, hpc, eofs, build, faulty, meta, hdr,
                   fld, dateVars>>

\* Lines 233-241: cCFData and cbCabinet, the seek to 0, the CFHEADER and
\* CFFOLDER again, and Ok(()).
MakeCabFinish ==
    /\ pc = "final"
    /\ \E ok \in Outcomes, okDrop \in Outcomes :
       \E folder \in {[fld EXCEPT !.cCFData = num_blocks]},
          t \in {tell(f, disk, ok)} :
       \E header \in {[hdr EXCEPT !.cbCabinet = AsU32(t.f.pos)]} :
       \E w2 \in {Then(Then(ThenSeekStart(t, Wide(0), ok),
                           Seg("hdr", CFHEADER_SIZE, header.cbCabinet,
                               header.coffFiles), ok),
                      Seg("folder", CFFOLDER_SIZE, folder.coffCabStart,
                          folder.cCFData), ok)} :
             /\ fld' = folder
             /\ IF w2.err
                THEN Return("Io", w2.f, w2.disk, TRUE, okDrop) /\ UNCHANGED hdr
                ELSE /\ hdr' = header
                     /\ Return("Ok", w2.f, w2.disk, FALSE, okDrop)
    /\ UNCHANGED <<codecVars, build, faulty, meta, num_blocks, rec, dateVars>>

MakeCabNext ==
    \/ MakeCabOpen
    \/ MakeCabHeaders
    \/ MakeCabFile
    \/ write_all_cfdata
    \/ MakeCabFinish

\* The length of the input's file name.
NameLen == 8

CabFile(data, kind) ==
    [data |-> data, kind |-> kind, name |-> NameLen, opens |-> TRUE,
     named |-> TRUE]

CabInputs ==
    {CabFile(d, "file") : d \in CodecInputs}
    \cup {CabFile(d, "pipe") : d \in PipeInputs}
    \cup {[CabFile(<<CRun(0, 1)>>, "file") EXCEPT !.opens = o, !.named = n,
                                                  !.name = l] :
            o \in BOOLEAN, n \in BOOLEAN, l \in {1, NameLen}}

CabInit ==
    /\ input \in CabInputs
    /\ level = LevelDefault
    /\ enc = NewEncoder(<<>>, LevelDefault)
    /\ blk = NoBlock
    /\ nblk = 0
    /\ eofs = 0
    /\ dec = NewDecoder
    /\ res = "none"
    /\ hpc = "idle"
    /\ pc = "start"
    /\ build \in {"debug", "release"}
    /\ faulty \in BOOLEAN
    /\ CabIdle

SpecCab == CabInit /\ [][MakeCabNext]_vars

(***************************************************************************)
(* make_cab over inputs of 2 GiB and 4 GiB, on a device that does not      *)
(* fail: as many blocks as the u16 counter holds and one more, and a       *)
(* cabinet of more bytes than a u32 holds.                                 *)
(***************************************************************************)
\* U16 blocks of zero bytes, the last of them of one byte.
ManyZeros == <<CRun(0, (U16 - 1) * MAX_CHUNK + 1)>>
\* 2^32 bytes that do not compress: the same 2^30 bytes four times.
QuarterLen == U16 * (MAX_CHUNK \div 2)
MuchNoise == [i \in 1..4 |-> XRun(0, QuarterLen)]
\* More than a u32 counts: the same 2^30 bytes five times.
TooMuch == [i \in 1..5 |-> XRun(0, QuarterLen)]

CabBigInit ==
    /\ \/ /\ input \in {CabFile(d, "file") : d \in {<<>>, ManyZeros, MuchNoise}}
          /\ build \in {"debug", "release"}
       \/ /\ input = CabFile(TooMuch, "file")
          /\ build = "debug"
    /\ level = LevelDefault
    /\ enc = NewEncoder(<<>>, LevelDefault)
    /\ blk = NoBlock
    /\ nblk = 0
    /\ eofs = 0
    /\ dec = NewDecoder
    /\ res = "none"
    /\ hpc = "idle"
    /\ pc = "start"
    /\ faulty = FALSE
    /\ CabIdle

SpecCabBig == CabBigInit /\ [][MakeCabNext]_vars

(***************************************************************************)
(* The encoder alone, under a caller that keeps calling read_block after   *)
(* the sentinel.                                                           *)
(***************************************************************************)
\* How many sentinels the caller takes.
MaxEofs == 3

EncInit ==
    /\ input \in [data : CodecInputs, kind : {"file"}]
                 \cup [data : PipeInputs, kind : {"pipe"}]
    /\ level \in {LevelNone, LevelDefault}
    /\ enc = NewEncoder(input.data, level)
    /\ blk = NoBlock
    /\ nblk = 0
    /\ eofs = 0
    /\ dec = NewDecoder
    /\ res = "none"
    /\ hpc = "enc"
    /\ pc = "idle"
    /\ build = "release"
    /\ faulty = FALSE
    /\ CabIdle

\* compress.read_block(), again and again.
EncRead ==
    /\ hpc = "enc"
    /\ eofs < MaxEofs
    /\ \E k \in ReadSizes(enc.src, input.kind) :
         \E r \in {read_block(enc, k)} :
             /\ enc' = r.e
             /\ blk' = r.block
             /\ nblk' = IF r.block.data.len > 0 THEN nblk + 1 ELSE nblk
             /\ eofs' = IF r.block.data.len > 0 THEN eofs ELSE eofs + 1
    /\ UNCHANGED <<input, level, dec, res, hpc, cabVars>>

SpecEnc == EncInit /\ [][EncRead]_vars

(***************************************************************************)
(* The decoder alone, given whatever bytes a caller passes to write_block. *)
(***************************************************************************)
\* How many calls of write_block are followed.
MaxCalls == 3

\* The payload read_block makes of data, from a new encoder.
BlockOf(data) == read_block(NewEncoder(data, LevelDefault), RLen(data)).block.data

\* The payloads passed: too short to hold a signature, with a wrong one,
\* with the right one and no stream, whole blocks, and a whole block with
\* bytes after it up to MAX_BLOCK_SIZE and one past it.
AnyPayloads ==
    {EmptyPayload,
     Payload(<<MSZIP_SIGNATURE[1]>>, NoStream, 1),
     Payload(<<0>>, NoStream, 1),
     Payload(MSZIP_SIGNATURE, NoStream, SIG_LEN),
     Payload(<<MSZIP_SIGNATURE[2], MSZIP_SIGNATURE[1]>>, NoStream, SIG_LEN)}
    \cup {BlockOf(d) : d \in {<<CRun(0, 1)>>, <<XRun(0, MAX_CHUNK)>>}}
    \cup {Payload(sg, BlockOf(<<CRun(1, ShortRead)>>).stream, n) :
             sg \in {MSZIP_SIGNATURE, <<MSZIP_SIGNATURE[1], 0>>},
             n \in {MAX_BLOCK_SIZE, MAX_BLOCK_SIZE + 1}}

DecInit ==
    /\ input = [data |-> <<>>, kind |-> "file"]
    /\ level = LevelDefault
    /\ enc = NewEncoder(<<>>, LevelDefault)
    /\ blk = NoBlock
    /\ nblk = 0
    /\ eofs = 0
    /\ dec = NewDecoder
    /\ res = "none"
    /\ hpc = "feed"
    /\ pc = "idle"
    /\ build = "release"
    /\ faulty = FALSE
    /\ CabIdle

\* decompress.write_block(p) for any p; a panic ends the caller.
DecFeed ==
    /\ hpc = "feed"
    /\ nblk < MaxCalls
    /\ \E p \in AnyPayloads :
         \E r \in {write_block(dec, p)} :
             /\ blk' = [original_size |-> 0, data |-> p]
             /\ dec' = r.d
             /\ res' = r.res
             /\ hpc' = IF r.res = "panic" THEN "panicked" ELSE "feed"
    /\ nblk' = nblk + 1
    /\ UNCHANGED <<input, level, enc, eofs, cabVars>>

SpecDec == DecInit /\ [][DecFeed]_vars

(***************************************************************************)
(* The CFFILE's date and time (src/lib.rs:216-225), from the modification  *)
(* time chrono gives: month 1..12, day 1..31, hour 0..23, minute 0..59,    *)
(* second 0..59, and any year.  The date is computed in u16, the time in   *)
(* u32 and then cut `as u16`.  A shift drops the bits it moves out; a      *)
(* subtraction or an addition out of range panics in a debug build and     *)
(* wraps in a release build.                                               *)
(***************************************************************************)
\* x << n in a u16.
Shl16(x, n) == (x * 2^n) % U16

\* The three terms of the date: (year as u16 - 1980) << 9, month << 5, day.
DateTerms(t) ==
    <<Shl16(((t.year % U16) - 1980) % U16, 9), Shl16(t.month % U16, 5),
      t.day % U16>>

\* The date of a release build.
Date(t) == (DateTerms(t)[1] + DateTerms(t)[2] + DateTerms(t)[3]) % U16

\* A debug build panics on the date's arithmetic.
DatePanics(t) ==
    \/ (t.year % U16) < 1980
    \/ DateTerms(t)[1] + DateTerms(t)[2] >= U16
    \/ DateTerms(t)[1] + DateTerms(t)[2] + DateTerms(t)[3] >= U16

\* A time whose seconds are not halved.
Time_whole(t) == (t.hour * 2^11 + t.minute * 2^5 + t.second) % U16

\* The time: ((hour << 11) + (minute << 5) + (second / 2)) as u16.
Time(t) == (t.hour * 2^11 + t.minute * 2^5 + t.second \div 2) % U16

\* The modification times tried: every date of 1979..2108 on the days at
\* the ends and the middle of the day field, at the first and the last
\* second of a day; and every second of some hours on the first and the
\* last date the format holds.
Years == 1979..2108

EdgeTimes ==
    {[hour |-> 0, minute |-> 0, second |-> 0],
     [hour |-> 23, minute |-> 59, second |-> 59]}

EdgeDates ==
    {[year |-> 1980, month |-> 1, day |-> 1],
     [year |-> 2107, month |-> 12, day |-> 31]}

At(d, c) ==
    [year |-> d.year, month |-> d.month, day |-> d.day,
     hour |-> c.hour, minute |-> c.minute, second |-> c.second]

MTimes ==
    {At(d, c) : d \in [year : Years, month : 1..12, day : {1, 15, 16, 31}],
                c \in EdgeTimes}
    \cup {At(d, c) : d \in EdgeDates,
                     c \in [hour : 0..23, minute : {0, 31, 32, 59},
                            second : 0..59]}

DateInit ==
    /\ mtime \in MTimes
    /\ build \in {"debug", "release"}
    /\ file = [date |-> 0, time |-> 0]
    /\ pc = "date"
    /\ input = [data |-> <<>>, kind |-> "file"]
    /\ level = LevelDefault
    /\ enc = NewEncoder(<<>>, LevelDefault)
    /\ blk = NoBlock
    /\ nblk = 0
    /\ eofs = 0
    /\ dec = NewDecoder
    /\ res = "none"
    /\ hpc = "idle"
    /\ faulty = FALSE
    /\ meta = Wide(0)
    /\ hdr = [cbCabinet |-> Wide(0), coffFiles |-> Wide(0)]
    /\ fld = [coffCabStart |-> Wide(0), cCFData |-> 0]
    /\ f = NewBufWriter
    /\ disk = NewDisk
    /\ num_blocks = 0
    /\ rec = [cbData |-> 0, cbUncomp |-> 0]
    /\ result = "running"
    /\ ioFailed = FALSE

\* The CFFILE literal's date and time.
CffileDateTime ==
    /\ pc = "date"
    /\ IF build = "debug" /\ DatePanics(mtime)
       THEN /\ pc' = "done"
            /\ result' = "panic"
            /\ UNCHANGED file
       ELSE /\ file' = [date |-> Date(mtime), time |-> Time(mtime)]
            /\ pc' = "dated"
            /\ UNCHANGED result
    /\ UNCHANGED <<codecVars, build, faulty, meta, hdr, fld, f, disk,
                   num_blocks, rec, ioFailed, mtime>>

SpecDate == DateInit /\ [][CffileDateTime]_vars

(***************************************************************************)
(* The claims.  C1-C4 are about the codec (SpecCodec), C6 about the        *)
(* decoder (SpecDec), C5 and C7-C10 about make_cab (SpecCab, SpecCabBig).   *)
(* C11 is about the encoder alone (SpecEnc), C14 about the decoder, C12,    *)
(* C13 and C15 about make_cab, C16 about the CFFILE's date (SpecDate).      *)
(***************************************************************************)
\* The test has ended: by its comparison, or by unwrap() on an error.
Ended == hpc \in {"passed", "failed", "panicked"}

\* The decoder has just taken the block blk, and the encoder has not moved.
BlockDone == hpc = "read" /\ res = "Ok" /\ blk.data.len > 0

\* The deflate stream of a payload ends with a final block and is whole.
RECURSIVE StreamBytes(_)
StreamBytes(blocks) ==
    IF blocks = <<>> THEN 0 ELSE Head(blocks).n + StreamBytes(Tail(blocks))

Terminated(stream) ==
    /\ stream.blocks # <<>>
    /\ stream.blocks[Len(stream.blocks)].final
    /\ ~stream.trunc

\* C1: round trip.  Every non-empty block of read_block, given in order to
\* write_block, is accepted, and after finish the sink holds the input.
C1_RoundTrip == Ended => (hpc = "passed" /\ dec.writer = input.data)

\* C2: every non-empty block read_block returns is the signature followed
\* by a deflate stream that was finished (it ends in a final block, whole)
\* and that encodes all original_size bytes taken from the input.
C2_BlockFinished ==
    blk.data.len > 0 =>
        /\ blk.data.sig = MSZIP_SIGNATURE
        /\ Terminated(blk.data.stream)
        /\ StreamBytes(blk.data.stream.blocks) = blk.original_size

\* C3: after every block the decoder has processed, its
\* dictionary is identical to the window the encoder kept after that block.
C3_SameWindow == BlockDone => dec.decompress.dict = Window(enc.compress)

\* C4: chunking.  A block shorter than MAX_CHUNK is returned only when the
\* input is exhausted, so an input of n bytes gives ceil(n / MAX_CHUNK)
\* non-empty blocks, and the sentinel follows the last of them.
C4_Chunking ==
    /\ blk.data.len > 0 =>
          /\ blk.original_size \in 1..MAX_CHUNK
          /\ blk.original_size < MAX_CHUNK => (enc.src = <<>> /\ enc.buf = <<>>)
    /\ hpc = "finish" =>
          nblk = (RLen(input.data) + MAX_CHUNK - 1) \div MAX_CHUNK

\* write_all_cfdata has just handed the CFDATA rec and the payload of the
\* block blk to the output.
RecordWritten == pc = "data" /\ nblk > 0

\* C5: in every CFDATA record make_cab writes, cbUncomp is in 1..=32768 and
\* cbData is at most cbUncomp + 12, so neither is truncated to 16 bits.
C5_CfdataSizes ==
    RecordWritten =>
        /\ rec.cbUncomp \in 1..32768
        /\ rec.cbData <= rec.cbUncomp + 12
        /\ rec.cbData = blk.data.len
        /\ rec.cbUncomp = blk.original_size

\* C5's case: a full chunk that does not compress has been written, its
\* payload longer than the chunk.
C5_Witness ==
    /\ RecordWritten
    /\ result = "running"
    /\ rec.cbUncomp = 32768
    /\ rec.cbData > rec.cbUncomp

\* write_block has returned, or panicked, on the payload blk.data.
Called == hpc \in {"feed", "panicked"} /\ res # "none"

\* C6: write_block answers BlockSizeTooLarge to every payload of more than
\* 32780 bytes, whatever it begins with, and otherwise InvalidBlockSignature
\* to every payload that does not begin with 0x43, 0x4B, those of 0 or 1
\* bytes included; 32780 bytes pass the size check.
C6_Validation ==
    Called =>
        /\ blk.data.len > 32780 => res = "BlockSizeTooLarge"
        /\ blk.data.len <= 32780 => res # "BlockSizeTooLarge"
        /\ (blk.data.len <= 32780 /\ blk.data.sig # <<67, 75>>) =>
               res = "InvalidBlockSignature"

\* C7: when make_cab returns Ok, the file's cbCabinet is the file's size,
\* coffFiles the offset of the CFFILE (44), and coffCabStart the offset of
\* the first CFDATA (44 + 16 + the name's length + 1).
C7_ForwardFields ==
    (result = "Ok" /\ ~ioFailed) =>
        /\ disk.cbCabinet = disk.len
        /\ disk.coffFiles = disk.fileAt
        /\ disk.coffFiles = Wide(44)
        /\ disk.coffCabStart = Wide(44 + 16 + input.name + 1)
        /\ disk.ndata > 0 => disk.coffCabStart = disk.dataAt

\* C8: make_cab does not abort on the block counter, and when it returns
\* Ok the file's cCFData is the number of CFDATA records in the file; for
\* an empty input that is 0, and cbFile is 0.
C8_BlockCount ==
    /\ result # "panic"
    /\ (result = "Ok" /\ ~ioFailed) =>
          /\ disk.cCFData = disk.ndata
          /\ input.data = <<>> =>
                (disk.ndata = 0 /\ disk.cCFData = 0 /\ disk.cbFile = Wide(0))

\* C9: when make_cab returns Ok, the cbUncomp of the file's CFDATA records
\* add up to the cbFile of its CFFILE.
C9_SizesAgree ==
    (result = "Ok" /\ ~ioFailed) => disk.sumUncomp = disk.cbFile

\* C10: every failure of an operation on the files makes make_cab return
\* an error, and Ok is returned only with the rewritten CFHEADER and
\* CFFOLDER in the file, nothing left in the buffer.
C10_ErrorsReturned ==
    /\ ioFailed => result \notin {"running", "Ok"}
    /\ result = "Ok" =>
          /\ f.buf = <<>>
          /\ disk.cbCabinet = hdr.cbCabinet
          /\ disk.cCFData = fld.cCFData

\* The input is exhausted: the reader has nothing left and the BufReader
\* holds nothing.
Exhausted == enc.src = <<>> /\ enc.buf = <<>>

\* C11: once the input is exhausted, read_block returns the sentinel
\* (original_size 0, empty payload), and every call leaves the encoder as
\* it was: nothing consumed, the output buffer and the compressor untouched.
C11_EofIdempotent ==
    [][(hpc = "enc" /\ Exhausted) =>
           (blk' = NoBlock /\ enc' = enc /\ nblk' = nblk)]_vars

\* C11's case: the sentinel has been returned a second time, after blocks
\* that left bytes in the compressor's window and in the output buffer.
C11_Witness ==
    /\ hpc = "enc"
    /\ eofs >= 2
    /\ nblk >= 2
    /\ blk = NoBlock
    /\ enc.out_buffer # EmptyPayload
    /\ enc.compress.hist # <<>>

\* C12: make_cab returns BadFilename whenever input_path has no file name
\* that is valid text, whether or not the path can be opened.
C12_BadFilename == (pc = "done" /\ ~input.named) => result = "BadFilename"

\* The input is longer than a u32 counts.
TooLong == WLen(input.data).hi > U16
           \/ (WLen(input.data).hi = U16 /\ WLen(input.data).lo > 0)

\* C13: an input longer than the 32-bit fields can hold is rejected at
\* make_cab's first step, with nothing written to the output.
C13_TooLongRejected ==
    (TooLong /\ pc # "start") =>
        /\ pc = "done"
        /\ result \notin {"running", "Ok", "panic"}
        /\ disk = NewDisk

\* write_block has rejected the payload it was given.
Rejected(r) == r \in {"BlockSizeTooLarge", "InvalidBlockSignature"}

\* C14: a write_block call that fails validation writes nothing to the
\* sink and leaves the decompressor, its counters and its dictionary as
\* they were.
C14_RejectedNoEffect ==
    [][(hpc = "feed" /\ nblk' = nblk + 1 /\ Rejected(res')) => dec' = dec]_vars

\* C14's case: a payload has been rejected by a decoder that had decoded a
\* block before, and holds its bytes as dictionary.
C14_Witness ==
    /\ hpc = "feed"
    /\ Rejected(res)
    /\ dec.writer # <<>>
    /\ dec.decompress.dict # <<>>

\* The length of a cabinet with the file's name and CFDATA records.
LayoutLen ==
    WAdd(disk.sumPayload,
         CFHEADER_SIZE + CFFOLDER_SIZE + CFFILE_SIZE + input.name + 1
         + CFDATA_SIZE * disk.ndata)

\* C15: the completed file is the 36-byte CFHEADER, the 8-byte CFFOLDER,
\* the 16-byte CFFILE, the name, one NUL, and for each non-empty block, in
\* the order read_block returned them, an 8-byte CFDATA and its payload;
\* the rewrite after the seek to 0 touches nothing from offset 44 on and
\* leaves the length as it was.
C15_Layout ==
    result = "Ok" =>
        /\ ~disk.garbled
        /\ disk.hdrAt = Wide(0)
        /\ disk.fldAt = Wide(36)
        /\ disk.fileAt = Wide(44)
        /\ disk.nameLen = input.name
        /\ disk.ndata > 0 => disk.dataAt = Wide(36 + 8 + 16 + input.name + 1)
        /\ disk.ndata = nblk
        /\ disk.next = "cfdata"
        /\ disk.len = LayoutLen

\* C15's case: a cabinet of several blocks is complete, its header
\* rewritten with the size of the file.
C15_Witness ==
    /\ result = "Ok"
    /\ disk.ndata >= 2
    /\ f.buf = <<>>
    /\ disk.cbCabinet = disk.len
    /\ disk.cCFData = disk.ndata

\* The bitwise or of two naturals.
RECURSIVE BitOr(_, _)
BitOr(a, b) ==
    IF a = 0 /\ b = 0 THEN 0
    ELSE (IF a % 2 = 1 \/ b % 2 = 1 THEN 1 ELSE 0)
         + 2 * BitOr(a \div 2, b \div 2)

\* The modification times C16 speaks of.
InRange(t) ==
    /\ t.year \in 1980..2107
    /\ t.month \in 1..12
    /\ t.day \in 1..31
    /\ t.hour \in 0..23
    /\ t.minute \in 0..59
    /\ t.second \in 0..59

\* C16: for a modification time of 1980..2107 the date written is
\* ((year-1980) << 9) | (month << 5) | day and the time written is
\* (hour << 11) | (minute << 5) | (second/2), computed without a panic;
\* each field can be read back from its own bits.
C16_DateTime ==
    (pc # "date" /\ InRange(mtime)) =>
        /\ pc = "dated"
        /\ file.date = BitOr(BitOr((mtime.year - 1980) * 2^9,
                                   mtime.month * 2^5), mtime.day)
        /\ file.time = BitOr(BitOr(mtime.hour * 2^11, mtime.minute * 2^5),
                             mtime.second \div 2)
        /\ file.date \div 2^9 = mtime.year - 1980
        /\ (file.date \div 2^5) % 2^4 = mtime.month
        /\ file.date % 2^5 = mtime.day
        /\ file.time \div 2^11 = mtime.hour
        /\ (file.time \div 2^5) % 2^6 = mtime.minute
        /\ file.time % 2^5 = mtime.second \div 2

\* C16's case: the last second the format holds has been encoded, in a
\* build that checks its arithmetic.
C16_Witness ==
    /\ pc = "dated"
    /\ build = "debug"
    /\ mtime = [year |-> 2107, month |-> 12, day |-> 31,
                hour |-> 23, minute |-> 59, second |-> 59]
    /\ file = [date |-> 65439, time |-> 49021]

====
